---- MODULE Spec2Model ----
(***************************************************************************)
(* Model of the translation relay server (server.js): the RequestQueue     *)
(* worker, handleRequest, the TranslationCache, the KeyPool and its        *)
(* RateLimiters, and the WebSocket message handler that feeds them; and of  *)
(* the browser hook useGeminiLive that talks to it.                        *)
(*                                                                         *)
(* Strings are sequences of one-character strings, so that trimming and    *)
(* the cache key concatenation are computed as the code computes them.     *)
(***************************************************************************)
EXTENDS Integers, Sequences, FiniteSets, TLC

VARIABLES
  queue,       \* RequestQueue.queue: requests not yet shifted by the worker
  processing,  \* RequestQueue.processing
  workers,     \* running process() loops, each with the request it is handling
  cache,       \* TranslationCache.cache: a Map, kept in insertion order
  pool,        \* KeyPool.keyPool: the RateLimiter of each key, by index
  wsPersona,   \* ws.persona of each connection
  env,         \* process environment: ENABLE_MOCK, and whether DeepL initialised
  now,         \* Date.now()
  received,    \* number of inbound messages so far (the next message's number)
  ticks,       \* number of clock advances so far
  log,         \* history: every provider call, ws.send and worker step, in order
  hook         \* the state, the refs and the browser objects of useGeminiLive

vars == <<queue, processing, workers, cache, pool, wsPersona, env, now, received, ticks, log,
          hook>>

----------------------------------------------------------------------------
(* Bounds of the model *)

MaxMsgs == 3
MaxPair == 2
MaxTicks == 1
maxSize == 2
NumKeys == 2
GEMINI_RPM == 2
GEMINI_RPD == 3
MonthlyLimit == 1
MaxConnects == 2
MaxStarts == 2
MaxTranscripts == 2

(* Program constants *)

MinuteWindow == 60000
DayWindow == 86400000

----------------------------------------------------------------------------
(* Strings *)

NONE == <<"n", "o", "n", "e">>
CAT == <<"c", "a", "t">>
JA == <<"j", "a">>
EN == <<"e", "n">>
SEP == <<"|">>

IsSpace(c) == c = " "

RECURSIVE TrimStart(_)
TrimStart(s) == IF s # <<>> /\ IsSpace(Head(s)) THEN TrimStart(Tail(s)) ELSE s

RECURSIVE TrimEnd(_)
TrimEnd(s) ==
  IF s # <<>> /\ IsSpace(s[Len(s)]) THEN TrimEnd(SubSeq(s, 1, Len(s) - 1)) ELSE s

\* a trim that removes nothing
TrimNothing(s) == s

\* String.prototype.trim
Trim(s) == TrimEnd(TrimStart(s))

----------------------------------------------------------------------------
(* RateLimiter *)

\* new RateLimiter(rpm, rpd)
RateLimiter(rpm, rpd) ==
  [rpm |-> rpm, rpd |-> rpd, minuteRequests |-> <<>>, dayRequests |-> <<>>]

NewLimiter == RateLimiter(GEMINI_RPM, GEMINI_RPD)

\* a filter that keeps a timestamp for one millisecond too long
NewerOrAsOld(ts, t, window) == SelectSeq(ts, LAMBDA x : t - x <= window)

\* this.minuteRequests.filter(t => now - t < 60000), and the same for the day
Newer(ts, t, window) == SelectSeq(ts, LAMBDA x : t - x < window)

Max0(x) == IF x > 0 THEN x ELSE 0

\* a check that measures the reset-in times from the newest timestamp
LimiterCheckFromNewest(l, t) ==
  LET m == Newer(l.minuteRequests, t, MinuteWindow)
      d == Newer(l.dayRequests, t, DayWindow)
  IN [limiter |-> [l EXCEPT !.minuteRequests = m, !.dayRequests = d],
      allowed |-> Len(m) < l.rpm /\ Len(d) < l.rpd,
      minuteRemaining |-> Max0(l.rpm - Len(m)),
      dayRemaining |-> Max0(l.rpd - Len(d)),
      minuteResetIn |-> IF Len(m) > 0 THEN Max0(MinuteWindow - (t - m[Len(m)])) ELSE 0,
      dayResetIn |-> IF Len(d) > 0 THEN Max0(DayWindow - (t - d[Len(d)])) ELSE 0,
      minuteUsed |-> Len(m),
      dayUsed |-> Len(d)]

\* RateLimiter.check: the pruned limiter and the returned status
LimiterCheck(l, t) ==
  LET m == Newer(l.minuteRequests, t, MinuteWindow)
      d == Newer(l.dayRequests, t, DayWindow)
  IN [limiter |-> [l EXCEPT !.minuteRequests = m, !.dayRequests = d],
      allowed |-> Len(m) < l.rpm /\ Len(d) < l.rpd,
      minuteRemaining |-> Max0(l.rpm - Len(m)),
      dayRemaining |-> Max0(l.rpd - Len(d)),
      minuteResetIn |-> IF Len(m) > 0 THEN Max0(MinuteWindow - (t - m[1])) ELSE 0,
      dayResetIn |-> IF Len(d) > 0 THEN Max0(DayWindow - (t - d[1])) ELSE 0,
      minuteUsed |-> Len(m),
      dayUsed |-> Len(d)]

\* RateLimiter.record
LimiterRecord(l, t) ==
  [l EXCEPT !.minuteRequests = Append(@, t), !.dayRequests = Append(@, t)]

----------------------------------------------------------------------------
(* KeyPool *)

Keys == 1..NumKeys

NewPool == [k \in Keys |-> NewLimiter]

\* the pools the environment can configure: every credential has the same
\* limits, GEMINI_RPM and GEMINI_RPD being the largest of the model
Pools == {[k \in Keys |-> RateLimiter(rpm, rpd)] : rpm \in 1..GEMINI_RPM, rpd \in 1..GEMINI_RPD}

RECURSIVE AvailableFrom(_, _, _)
AvailableFrom(p, k, t) ==
  IF k > Len(p) THEN [pool |-> p, key |-> 0]
  ELSE LET c == LimiterCheck(p[k], t)
           q == [p EXCEPT ![k] = c.limiter]
       IN IF c.allowed THEN [pool |-> q, key |-> k] ELSE AvailableFrom(q, k + 1, t)

\* a pool that hands out the allowed credential of the highest index
RECURSIVE AvailableDownFrom(_, _, _)
AvailableDownFrom(p, k, t) ==
  IF k < 1 THEN [pool |-> p, key |-> 0]
  ELSE LET c == LimiterCheck(p[k], t)
           q == [p EXCEPT ![k] = c.limiter]
       IN IF c.allowed THEN [pool |-> q, key |-> k] ELSE AvailableDownFrom(q, k - 1, t)

GetHighestAvailableKey(p, t) == AvailableDownFrom(p, NumKeys, t)

\* a pool that hands out its first credential without asking the limiter
GetFirstKey(p, t) == [pool |-> p, key |-> 1]

\* KeyPool.getAvailableKey: key 0 is null; limiters checked on the way are pruned
GetAvailableKey(p, t) == AvailableFrom(p, 1, t)

RECURSIVE SumOver(_, _)
SumOver(f, S) ==
  IF S = {} THEN 0 ELSE LET k == CHOOSE x \in S : TRUE IN f[k] + SumOver(f, S \ {k})

Infinity == 2000000000

\* the greatest instead of the least
MaxOf(S) == IF S = {} THEN Infinity ELSE CHOOSE x \in S : \A y \in S : x >= y

MinOf(S) == IF S = {} THEN Infinity ELSE CHOOSE x \in S : \A y \in S : x <= y

\* an aggregated status whose waitTime looks at every credential, allowed or not
GetAggregatedStatusOverAll(p, t) ==
  LET st == [k \in DOMAIN p |-> LimiterCheck(p[k], t)]
      minResetIn == MinOf({st[k].minuteResetIn : k \in DOMAIN p})
  IN [pool |-> [k \in DOMAIN p |-> st[k].limiter],
      allowed |-> \E k \in DOMAIN p : st[k].allowed,
      minuteRemaining |-> SumOver([k \in DOMAIN p |-> st[k].minuteRemaining], DOMAIN p),
      dayRemaining |-> SumOver([k \in DOMAIN p |-> st[k].dayRemaining], DOMAIN p),
      minuteUsed |-> SumOver([k \in DOMAIN p |-> st[k].minuteUsed], DOMAIN p),
      dayUsed |-> SumOver([k \in DOMAIN p |-> st[k].dayUsed], DOMAIN p),
      waitTime |-> IF minResetIn = Infinity THEN 0 ELSE minResetIn,
      keyCount |-> Len(p)]

\* KeyPool.getAggregatedStatus
GetAggregatedStatus(p, t) ==
  LET st == [k \in DOMAIN p |-> LimiterCheck(p[k], t)]
      minResetIn == MinOf({st[k].minuteResetIn : k \in {j \in DOMAIN p : ~st[j].allowed}})
  IN [pool |-> [k \in DOMAIN p |-> st[k].limiter],
      allowed |-> \E k \in DOMAIN p : st[k].allowed,
      minuteRemaining |-> SumOver([k \in DOMAIN p |-> st[k].minuteRemaining], DOMAIN p),
      dayRemaining |-> SumOver([k \in DOMAIN p |-> st[k].dayRemaining], DOMAIN p),
      minuteUsed |-> SumOver([k \in DOMAIN p |-> st[k].minuteUsed], DOMAIN p),
      dayUsed |-> SumOver([k \in DOMAIN p |-> st[k].dayUsed], DOMAIN p),
      waitTime |-> IF minResetIn = Infinity THEN 0 ELSE minResetIn,
      keyCount |-> Len(p)]

----------------------------------------------------------------------------
(* TranslationCache *)

\* TranslationCache.getKey
GetKey(text, sourceLang, targetLang, persona) ==
  text \o SEP \o sourceLang \o SEP \o targetLang \o SEP
       \o (IF persona = <<>> THEN NONE ELSE persona)

CacheHas(c, key) == \E i \in 1..Len(c) : c[i].key = key

\* Map.get: <<>> stands for undefined (a stored value is never empty)
MapGet(c, key) ==
  IF CacheHas(c, key) THEN c[CHOOSE i \in 1..Len(c) : c[i].key = key].value ELSE <<>>

\* Map.set: an existing key keeps its position, a new key goes last
MapSet(c, key, value) ==
  IF CacheHas(c, key)
  THEN [i \in 1..Len(c) |-> IF c[i].key = key THEN [key |-> key, value |-> value] ELSE c[i]]
  ELSE Append(c, [key |-> key, value |-> value])

\* a lookup that never finds anything
CacheGetMisses(c, text, sourceLang, targetLang, persona) == <<>>

\* TranslationCache.get
CacheGet(c, text, sourceLang, targetLang, persona) ==
  MapGet(c, GetKey(text, sourceLang, targetLang, persona))

\* a set that never evicts
CacheSetNeverEvicts(c, text, sourceLang, targetLang, persona, result) ==
  MapSet(c, GetKey(text, sourceLang, targetLang, persona), result)

\* a set that stores nothing
CacheSetForgets(c, text, sourceLang, targetLang, persona, result) == c

\* TranslationCache.set
CacheSet(c, text, sourceLang, targetLang, persona, result) ==
  LET c1 == IF Len(c) >= maxSize THEN Tail(c) ELSE c
  IN MapSet(c1, GetKey(text, sourceLang, targetLang, persona), result)

----------------------------------------------------------------------------
(* Inbound messages and history events *)

Callers == {"w1", "w2"}

\* message.data of a text_input: present is FALSE when the field is missing;
\* textKind is "number" for a text that is not a string
Data(text, persona) ==
  [present |-> TRUE, textKind |-> "string", text |-> text,
   sourceLang |-> JA, targetLang |-> EN, persona |-> persona]

NoData == [Data(<<>>, <<>>) EXCEPT !.present = FALSE]

NumberData == [Data(<<"5">>, <<>>) EXCEPT !.textKind = "number"]

Texts == {<<"a">>, <<"b">>, <<" ">>}

Personas == {<<>>, CAT}

TextInputs ==
  {[type |-> "text_input", data |-> d] :
     d \in {NoData, NumberData} \cup {Data(t, p) : t \in Texts, p \in Personas}}

Messages ==
  TextInputs \cup
  {[type |-> "badjson", data |-> NoData],
   [type |-> "rate_status", data |-> NoData],
   [type |-> "config", data |-> NoData],
   [type |-> "config", data |-> Data(<<>>, CAT)]}

\* One history event; the fields an event does not use keep these values
E0 ==
  [e |-> "", n |-> 0, ws |-> "", type |-> "", content |-> <<>>, detail |-> "",
   limited |-> FALSE, isDailyLimit |-> FALSE, waitTime |-> 0,
   minuteRemaining |-> 0, dayRemaining |-> 0, key |-> 0, data |-> NoData]

\* an inbound message arrives: its number, its sender, its type and its data
RecvEv(n, ws, m) ==
  [E0 EXCEPT !.e = "recv", !.n = n, !.ws = ws, !.type = m.type, !.data = m.data]

\* ws.send(JSON.stringify({type, ...}))
SendEv(req, type) == [E0 EXCEPT !.e = "send", !.n = req.n, !.ws = req.ws, !.type = type]

StepEv(req, e) == [E0 EXCEPT !.e = e, !.n = req.n, !.ws = req.ws]

CallEv(req, provider, k) ==
  [E0 EXCEPT !.e = "call", !.n = req.n, !.ws = req.ws, !.type = provider, !.key = k]

----------------------------------------------------------------------------
(* Providers *)

\* what a provider call can resolve with (result.text / response.text),
\* the empty text included, and what it can reject with
ProviderTexts == {<<"X">>, <<"Y">>, <<>>}

ProviderErrors == {"429", "quota", "other"}

Outcomes ==
  {[ok |-> TRUE, text |-> x, error |-> ""] : x \in ProviderTexts} \cup
  {[ok |-> FALSE, text |-> <<>>, error |-> x] : x \in ProviderErrors}

\* a test that takes every provider error for a quota error
AnyErrorQuotaShaped(error) == TRUE

\* status === 429 || errorMsg.includes('429') || includes('rate') || includes('quota')
QuotaShaped(error) == error \in {"429", "quota"}

\* errorMsg.includes('quota') || errorMsg.includes('daily')
ErrorSaysDaily(error) == error = "quota"

MOCKPREFIX == <<"[", "M", "O", "C", "K", "]", " ">>

CatEndings == <<(<<"n", "y", "a">>), (<<"n", "y", "a", "n">>), (<<"N", "Y", "A">>)>>

Randoms == 1..3

\* mockTranslate; rnd is the value Math.random() picks the ending with
MockTranslate(text, sourceLang, targetLang, persona, rnd) ==
  MOCKPREFIX \o (IF persona = CAT THEN text \o CatEndings[rnd] \o <<"*">> ELSE text)

----------------------------------------------------------------------------
(* RequestQueue.handleRequest *)

\* What one run of handleRequest has made of the shared state so far, and where
\* it stands: pc is "deepl", "gemini" or "retry" while it awaits that provider
\* call, "returned" or "threw" once its promise has settled.
Running(c, p, l) ==
  [cache |-> c, pool |-> p, log |-> l, pc |-> "", key |-> 0, error |-> ""]

Logged(S, ev) == [S EXCEPT !.log = Append(@, ev)]

Returned(S, req) == [Logged(S, StepEv(req, "return")) EXCEPT !.pc = "returned"]

Threw(S, req) == [Logged(S, StepEv(req, "throw")) EXCEPT !.pc = "threw"]

Awaiting(S, req, provider, k) ==
  [Logged(S, CallEv(req, provider, k)) EXCEPT !.pc = provider, !.key = k]

ErrorEv(req, detail) == [SendEv(req, "error") EXCEPT !.detail = detail]

LimitedEv(req, daily, wait, minuteRemaining, dayRemaining) ==
  [SendEv(req, "rate_limit") EXCEPT !.limited = TRUE, !.isDailyLimit = daily,
     !.waitTime = wait, !.minuteRemaining = minuteRemaining,
     !.dayRemaining = dayRemaining]

\* a delivery that forgets to store the translation
DeliverWithoutStore(S, req, translatedText) ==
  IF translatedText # <<>>
  THEN Logged(Logged(S, [SendEv(req, "text") EXCEPT !.content = translatedText]),
              SendEv(req, "turn_complete"))
  ELSE S

\* if (translatedText) { translationCache.set(...); send text; send turn_complete }
Deliver(S, req, translatedText) ==
  LET d == req.message.data
  IN IF translatedText # <<>>
     THEN LET S0 == IF Len(S.cache) >= maxSize
                    THEN Logged(S, [StepEv(req, "evict") EXCEPT
                                      !.content = Head(S.cache).key])
                    ELSE S
              S1 == [S0 EXCEPT !.cache = CacheSet(@, d.text, d.sourceLang,
                                                  d.targetLang, d.persona,
                                                  translatedText)]
              S2 == Logged(S1, [SendEv(req, "text") EXCEPT !.content = translatedText])
          IN Logged(S2, SendEv(req, "turn_complete"))
     ELSE S

\* catch (err) { ws.send({type: 'error', message: 'Translation failed: ...'}) }
\* catch (err) of handleRequest
OuterCatch(S, req) == Returned(Logged(S, ErrorEv(req, "Translation failed")), req)

\* a Gemini branch that asks for a credential without the pre-check
GeminiStartWithoutPreCheck(S, req, t) ==
  LET rateStatus == GetAggregatedStatus(S.pool, t)
      S2 == Logged([S EXCEPT !.pool = rateStatus.pool],
                   [SendEv(req, "rate_limit") EXCEPT
                      !.minuteRemaining = rateStatus.minuteRemaining,
                      !.dayRemaining = rateStatus.dayRemaining])
      keyItem == GetAvailableKey(S2.pool, t)
      S3 == [S2 EXCEPT !.pool = keyItem.pool]
  IN IF keyItem.key = 0
     THEN Returned(Logged(S3, ErrorEv(req, "No available API keys")), req)
     ELSE Awaiting(S3, req, "gemini", keyItem.key)

\* a Gemini branch that calls a rejection a daily one as soon as one
\* credential has used up its day
GeminiStartDailyFromAny(S, req, t) ==
  LET rateStatus == GetAggregatedStatus(S.pool, t)
      S1 == [S EXCEPT !.pool = rateStatus.pool]
  IN IF ~rateStatus.allowed
     THEN Returned(Logged(S1, LimitedEv(req, \E k \in Keys : LimiterCheck(S.pool[k], t).dayRemaining = 0,
                                        rateStatus.waitTime,
                                        rateStatus.minuteRemaining,
                                        rateStatus.dayRemaining)), req)
     ELSE LET S2 == Logged(S1, [SendEv(req, "rate_limit") EXCEPT
                                  !.minuteRemaining = rateStatus.minuteRemaining,
                                  !.dayRemaining = rateStatus.dayRemaining])
              keyItem == GetAvailableKey(S2.pool, t)
              S3 == [S2 EXCEPT !.pool = keyItem.pool]
          IN IF keyItem.key = 0
             THEN Returned(Logged(S3, ErrorEv(req, "No available API keys")), req)
             ELSE Awaiting(S3, req, "gemini", keyItem.key)

\* the Gemini branch up to the first generateContent call
GeminiStart(S, req, t) ==
  LET rateStatus == GetAggregatedStatus(S.pool, t)
      S1 == [S EXCEPT !.pool = rateStatus.pool]
  IN IF ~rateStatus.allowed
     THEN Returned(Logged(S1, LimitedEv(req, rateStatus.dayRemaining = 0,
                                        rateStatus.waitTime,
                                        rateStatus.minuteRemaining,
                                        rateStatus.dayRemaining)), req)
     ELSE LET S2 == Logged(S1, [SendEv(req, "rate_limit") EXCEPT
                                  !.minuteRemaining = rateStatus.minuteRemaining,
                                  !.dayRemaining = rateStatus.dayRemaining])
              keyItem == GetAvailableKey(S2.pool, t)
              S3 == [S2 EXCEPT !.pool = keyItem.pool]
          IN IF keyItem.key = 0
             THEN Returned(Logged(S3, ErrorEv(req, "No available API keys")), req)
             ELSE Awaiting(S3, req, "gemini", keyItem.key)

\* a test that takes the persona 'none' for a style
NoPersonaOnlyAbsent(persona) == persona = <<>>

\* !persona || persona === 'none'
NoPersona(persona) == persona = <<>> \/ persona = NONE

\* handleRequest from its start to its first await or its return;
\* rnd is what Math.random() yields in mockTranslate
HandleRequest(S0, req, t, rnd) ==
  LET S == Logged(S0, StepEv(req, "start"))
      d == req.message.data
  IN IF req.message.type # "text_input" THEN Returned(S, req)
     ELSE IF ~d.present THEN Threw(S, req)
     ELSE IF d.textKind = "string" /\ d.text = <<>> THEN Returned(S, req)
     ELSE IF d.textKind # "string" THEN Threw(S, req)
     ELSE IF Len(Trim(d.text)) = 0 THEN Returned(S, req)
     ELSE LET cached == CacheGet(S.cache, d.text, d.sourceLang, d.targetLang, d.persona)
          IN IF cached # <<>>
             THEN Returned(Deliver(Logged(S, StepEv(req, "hit")), req, cached), req)
             ELSE IF NoPersona(d.persona)
             THEN IF ~req.translator
                  THEN Returned(Logged(S, ErrorEv(req, "DeepL unavailable")), req)
                  ELSE Awaiting(S, req, "deepl", 0)
             ELSE IF env.mock
             THEN Returned(Deliver(S, req, MockTranslate(d.text, d.sourceLang,
                                                         d.targetLang, d.persona,
                                                         rnd)), req)
             ELSE GeminiStart(S, req, t)

\* a provider call settles: it resolved, or it rejected with an error
SettledEv(req, provider, k, out) ==
  [E0 EXCEPT !.e = IF out.ok THEN "resolved" ELSE "rejected", !.n = req.n,
             !.ws = req.ws, !.type = provider, !.key = k, !.detail = out.error]

\* after await translator.translateText(...)
DeepLSettled(S0, req, out) ==
  LET S == Logged(S0, SettledEv(req, "deepl", 0, out))
  IN IF out.ok THEN Returned(Deliver(S, req, out.text), req) ELSE OuterCatch(S, req)

\* a record that always lands on the first credential
RecordOnFirst(S, k, t) == [S EXCEPT !.pool[1] = LimiterRecord(@, t)]

\* keyItem.limiter.record()
RecordOn(S, k, t) == [S EXCEPT !.pool[k] = LimiterRecord(@, t)]

\* after await keyItem.client.models.generateContent(...)
GeminiSettled(S0, req, k, out, t) ==
  LET S == Logged(S0, SettledEv(req, "gemini", k, out)) IN
  IF out.ok THEN Returned(Deliver(RecordOn(S, k, t), req, out.text), req)
  ELSE IF QuotaShaped(out.error)
  THEN LET S1 == RecordOn(S, k, t)
           retryKey == GetAvailableKey(S1.pool, t)
           S2 == [S1 EXCEPT !.pool = retryKey.pool, !.error = out.error]
       IN IF retryKey.key # 0
          THEN [Logged(S2, CallEv(req, "gemini", retryKey.key)) EXCEPT
                  !.pc = "retry", !.key = retryKey.key]
          ELSE Returned(Logged(S2, LimitedEv(req, ErrorSaysDaily(out.error),
                                             60000, 0, 0)), req)
  ELSE OuterCatch(S, req)

\* a retry that, refused with a quota error, moves on to one more credential
RetrySettledTryingOn(S0, req, k, errorMsg, out, t) ==
  LET S == Logged(S0, SettledEv(req, "gemini", k, out))
      nextKey == GetAvailableKey(S.pool, t)
  IN IF out.ok THEN Returned(Deliver(RecordOn(S, k, t), req, out.text), req)
     ELSE IF QuotaShaped(out.error) /\ nextKey.key # 0
     THEN [Logged([S EXCEPT !.pool = nextKey.pool], CallEv(req, "gemini", nextKey.key))
             EXCEPT !.pc = "retry", !.key = nextKey.key]
     ELSE Returned(Logged(S, LimitedEv(req, ErrorSaysDaily(errorMsg), 60000, 0, 0)), req)

\* after await retryKey.client.models.generateContent(...)
RetrySettled(S0, req, k, errorMsg, out, t) ==
  LET S == Logged(S0, SettledEv(req, "gemini", k, out)) IN
  IF out.ok THEN Returned(Deliver(RecordOn(S, k, t), req, out.text), req)
  ELSE Returned(Logged(S, LimitedEv(req, ErrorSaysDaily(errorMsg), 60000, 0, 0)), req)

----------------------------------------------------------------------------
(* RequestQueue.enqueue and RequestQueue.process *)

\* r.type of a queued request: a request is {ws, message, translator} and has
\* no type field of its own
RequestType(r) == "undefined"

\* this.queue.findIndex(r => r.ws === request.ws && r.type === 'text_input');
\* 0 stands for -1
FindIndex(q, request) ==
  LET hits == {i \in 1..Len(q) : q[i].ws = request.ws /\ RequestType(q[i]) = "text_input"}
  IN IF hits = {} THEN 0 ELSE CHOOSE i \in hits : \A j \in hits : i <= j

\* a guard that forgets the processing flag
ProcessIgnoresFlag(flag, q) == Len(q) = 0

\* if (this.processing || this.queue.length === 0) return;
ProcessReturnsEarly(flag, q) == flag \/ Len(q) = 0

\* a loop that never raises the flag
FlagLeftDown == FALSE

\* this.processing = true, before the loop
FlagWhileLooping == TRUE

WorkerOf(S, req) == [req |-> req, pc |-> S.pc, key |-> S.key, error |-> S.error]

AsRunning(w, c, p, l) ==
  [Running(c, p, l) EXCEPT !.pc = w.pc, !.key = w.key, !.error = w.error]

\* a loop turn that takes the request that was appended last
PopAndHandle(q, others, l, rnd) ==
  LET request == q[Len(q)]
      S == HandleRequest(Running(cache, pool, l), request, now, rnd)
  IN /\ queue' = SubSeq(q, 1, Len(q) - 1)
     /\ cache' = S.cache
     /\ pool' = S.pool
     /\ log' = S.log
     /\ workers' = others \cup {WorkerOf(S, request)}

\* one turn of the while loop: shift the head and run handleRequest on it up to
\* its first await; others are the process() loops that stay as they are
ShiftAndHandle(q, others, l, rnd) ==
  LET request == Head(q)
      S == HandleRequest(Running(cache, pool, l), request, now, rnd)
  IN /\ queue' = Tail(q)
     /\ cache' = S.cache
     /\ pool' = S.pool
     /\ log' = S.log
     /\ workers' = others \cup {WorkerOf(S, request)}

\* the part of the state a settled provider call hands back
Settle(w, S) ==
  /\ cache' = S.cache
  /\ pool' = S.pool
  /\ log' = S.log
  /\ workers' = (workers \ {w}) \cup {WorkerOf(S, w.req)}
  /\ UNCHANGED <<queue, processing, wsPersona, env, now, received, ticks, hook>>

----------------------------------------------------------------------------
(* Actions *)

\* useGeminiLive() at its first render: the useState and useRef initial values,
\* no WebSocket and no SpeechRecognition object yet; heard counts the final
\* transcripts and simulated inputs so far, stoppedAt is its value when
\* stopEverything last ran, sent lists the messages given to socket.send
NewHook ==
  [isConnected |-> FALSE, isConnecting |-> FALSE, isListening |-> FALSE,
   isRawModeRef |-> FALSE, error |-> "null", currentText |-> <<>>,
   socketRef |-> 0, sockets |-> <<>>,
   recognitionRef |-> 0, recognitions |-> <<>>,
   isActiveRef |-> FALSE, restartTimerRef |-> "null",
   debounceTimerRef |-> "null", bufferedTextRef |-> <<>>,
   heard |-> 0, stoppedAt |-> 0, sent |-> <<>>]

Init ==
  /\ queue = <<>>
  /\ processing = FALSE
  /\ workers = {}
  /\ cache = <<>>
  /\ pool \in Pools
  /\ wsPersona = [w \in Callers |-> <<>>]
  /\ env \in [mock : BOOLEAN, deepl : BOOLEAN]
  /\ now = 0
  /\ received = 0
  /\ ticks = 0
  /\ log = <<>>
  /\ hook = NewHook

\* ws.on('message') for anything but a text_input
ReceiveOther(ws, m, limit) ==
  LET msg == [n |-> received + 1, ws |-> ws]
      heard == Append(log, RecvEv(received + 1, ws, m))
      internalError == Append(heard, ErrorEv(msg, "Internal server error"))
  IN /\ received < limit
     /\ m.type # "text_input"
     /\ received' = received + 1
     /\ UNCHANGED <<queue, processing, workers, cache, env, now, ticks, hook>>
     /\ CASE m.type = "badjson" ->
               /\ log' = internalError
               /\ UNCHANGED <<pool, wsPersona>>
          [] m.type = "config" /\ ~m.data.present ->
               /\ log' = internalError
               /\ UNCHANGED <<pool, wsPersona>>
          [] m.type = "config" /\ m.data.present ->
               /\ wsPersona' = [wsPersona EXCEPT ![ws] = m.data.persona]
               /\ log' = Append(heard, SendEv(msg, "connected"))
               /\ UNCHANGED pool
          [] m.type = "rate_status" ->
               LET status == GetAggregatedStatus(pool, now)
               IN /\ pool' = status.pool
                  /\ log' = Append(heard, [SendEv(msg, "rate_status") EXCEPT
                                           !.waitTime = status.waitTime,
                                           !.minuteRemaining = status.minuteRemaining,
                                           !.dayRemaining = status.dayRemaining])
                  /\ UNCHANGED wsPersona

\* ws.on('message') for a text_input: requestQueue.enqueue, and the process()
\* it calls up to its first await
ReceiveTextInput(ws, m, rnd, limit) ==
  LET request == [n |-> received + 1, ws |-> ws, message |-> m, translator |-> env.deepl]
      existingIndex == FindIndex(queue, request)
      pushed == Append(queue, request)
      heard == Append(log, RecvEv(received + 1, ws, m))
  IN /\ received < limit
     /\ m.type = "text_input"
     /\ received' = received + 1
     /\ UNCHANGED <<wsPersona, env, now, ticks, hook>>
     /\ IF existingIndex # 0
        THEN /\ queue' = [queue EXCEPT ![existingIndex] = request]
             /\ log' = Append(heard, StepEv(request, "replace"))
             /\ UNCHANGED <<processing, workers, cache, pool>>
        ELSE IF ProcessReturnsEarly(processing, pushed)
        THEN /\ queue' = pushed
             /\ log' = Append(heard, StepEv(request, "enqueue"))
             /\ UNCHANGED <<processing, workers, cache, pool>>
        ELSE /\ processing' = FlagWhileLooping
             /\ ShiftAndHandle(pushed, workers, Append(heard, StepEv(request, "enqueue")), rnd)

\* process() resumes after await this.handleRequest(request)
ProcessResume(w, rnd) ==
  /\ w \in workers
  /\ w.pc \in {"returned", "threw"}
  /\ UNCHANGED <<wsPersona, env, now, received, ticks, hook>>
  /\ IF w.pc = "threw"
     THEN /\ workers' = workers \ {w}
          /\ log' = Append(log, StepEv(w.req, "abort"))
          /\ UNCHANGED <<queue, processing, cache, pool>>
     ELSE IF Len(queue) > 0
     THEN /\ ShiftAndHandle(queue, workers \ {w}, log, rnd)
          /\ UNCHANGED processing
     ELSE /\ processing' = FALSE
          /\ workers' = workers \ {w}
          /\ UNCHANGED <<queue, cache, pool, log>>

\* translator.translateText resolves or rejects
DeepLSettle(w, out) ==
  /\ w \in workers
  /\ w.pc = "deepl"
  /\ Settle(w, DeepLSettled(AsRunning(w, cache, pool, log), w.req, out))

\* the first generateContent call resolves or rejects
GeminiSettle(w, out) ==
  /\ w \in workers
  /\ w.pc = "gemini"
  /\ Settle(w, GeminiSettled(AsRunning(w, cache, pool, log), w.req, w.key, out, now))

\* the retry's generateContent call resolves or rejects
RetrySettle(w, out) ==
  /\ w \in workers
  /\ w.pc = "retry"
  /\ Settle(w, RetrySettled(AsRunning(w, cache, pool, log), w.req, w.key, w.error, out, now))

TickSteps == {1000, MinuteWindow, DayWindow}

\* Date.now() advances by d milliseconds, at most limit times
TickWithin(d, limit) ==
  /\ ticks < limit
  /\ now' = now + d
  /\ ticks' = ticks + 1
  /\ UNCHANGED <<queue, processing, workers, cache, pool, wsPersona, env, received, log, hook>>

TickBy(d) == TickWithin(d, MaxTicks)

\* time passes
Tick == \E d \in TickSteps : TickBy(d)

\* the next-state relation over a set of callers, of inbound messages and of
\* provider outcomes, for at most limit inbound messages
NextOver(callers, msgs, outs, limit) ==
  \/ \E ws \in callers, m \in msgs : ReceiveOther(ws, m, limit)
  \/ \E ws \in callers, m \in msgs, rnd \in Randoms : ReceiveTextInput(ws, m, rnd, limit)
  \/ \E w \in workers, rnd \in Randoms : ProcessResume(w, rnd)
  \/ \E w \in workers, out \in outs : DeepLSettle(w, out)
  \/ \E w \in workers, out \in outs : GeminiSettle(w, out)
  \/ \E w \in workers, out \in outs : RetrySettle(w, out)

TextInput(d) == [type |-> "text_input", data |-> d]

Outcome(ok, x) ==
  IF ok THEN [ok |-> TRUE, text |-> x, error |-> ""]
  ELSE [ok |-> FALSE, text |-> <<>>, error |-> x]

\* The scheduler under well-formed and malformed messages of two callers
QueueMessages ==
  {TextInput(Data(<<"a">>, <<>>)), TextInput(Data(<<"a">>, CAT)),
   TextInput(NoData), TextInput(NumberData),
   [type |-> "badjson", data |-> NoData],
   [type |-> "config", data |-> NoData],
   [type |-> "config", data |-> Data(<<>>, CAT)]}

QueueOutcomes ==
  {Outcome(TRUE, <<"X">>), Outcome(TRUE, <<>>), Outcome(FALSE, "429"), Outcome(FALSE, "other")}

InitQueue == Init /\ ~env.mock /\ pool = NewPool

NextQueue == NextOver(Callers, QueueMessages, QueueOutcomes, MaxMsgs)

SpecQueue == InitQueue /\ [][NextQueue]_vars

\* The same, for the claims that are about a pair of requests
NextSerial == NextOver(Callers, QueueMessages, QueueOutcomes, MaxPair)

SpecSerial == InitQueue /\ [][NextSerial]_vars

\* The cache under repeated and distinct well-formed requests of one caller
CacheMessages ==
  {TextInput(Data(t, p)) : t \in {<<"a">>, <<"b">>}, p \in Personas} \cup
  {[type |-> "rate_status", data |-> NoData]}

CacheOutcomes == {Outcome(TRUE, <<"X">>), Outcome(TRUE, <<"Y">>), Outcome(FALSE, "429")}

InitCache == Init /\ env.deepl /\ ~env.mock /\ pool = NewPool

NextCache == NextOver({"w1"}, CacheMessages, CacheOutcomes, MaxMsgs)

SpecCache == InitCache /\ [][NextCache]_vars

\* The same, for the claims that are about a request and its repetition
NextRepeat == NextOver({"w1"}, CacheMessages, CacheOutcomes, MaxPair)

SpecRepeat == InitCache /\ [][NextRepeat]_vars

\* The cache filled by text_input messages alone, each answered or refused by
\* its first provider call
FillMessages == {TextInput(Data(t, p)) : t \in {<<"a">>, <<"b">>}, p \in Personas}

FillOutcomes == {Outcome(TRUE, <<"X">>), Outcome(FALSE, "other")}

NextFill ==
  \/ \E m \in FillMessages, rnd \in Randoms : ReceiveTextInput("w1", m, rnd, MaxMsgs)
  \/ \E w \in workers, rnd \in Randoms : ProcessResume(w, rnd)
  \/ \E w \in workers, out \in FillOutcomes : DeepLSettle(w, out)
  \/ \E w \in workers, out \in FillOutcomes : GeminiSettle(w, out)

SpecFill == InitCache /\ [][NextFill]_vars

----------------------------------------------------------------------------
(* The history, read back *)

Idx == 1..Len(log)

\* positions of the events of kind e that belong to inbound message n
At(n, e) == {i \in Idx : log[i].n = n /\ log[i].e = e}

Seen(n, e) == At(n, e) # {}

\* the text_input messages received so far
TextInputNs == {log[i].n : i \in {j \in Idx : log[j].e = "recv" /\ log[j].type = "text_input"}}

RecvOf(n) == log[CHOOSE i \in Idx : log[i].e = "recv" /\ log[i].n = n]

\* handleRequest(n) has settled
Settled(n) == Seen(n, "return") \/ Seen(n, "throw")

\* a terminal outcome: a translation, an error, or a rate_limit with limited = true
IsTerminal(ev) ==
  /\ ev.e = "send"
  /\ \/ ev.type = "text"
     \/ ev.type = "error"
     \/ ev.type = "rate_limit" /\ ev.limited

Terminals(n) == {i \in Idx : log[i].n = n /\ IsTerminal(log[i])}

\* the worker was idle when n was enqueued: process() took it up in the same turn
EnqueuedIdle(n) ==
  \E i \in At(n, "enqueue") : i < Len(log) /\ log[i + 1].e = "start" /\ log[i + 1].n = n

----------------------------------------------------------------------------
(* C1: at most one request is in flight at a time: handleRequest is never    *)
(* started for a request while the handleRequest of another request has not *)
(* settled, whatever the interleaving of enqueue calls.                     *)

C1_OneInFlight ==
  /\ Cardinality(workers) <= 1
  /\ \A i, j \in Idx :
       (i < j /\ log[i].e = "start" /\ log[j].e = "start")
         => \E k \in (i + 1)..(j - 1) :
              log[k].n = log[i].n /\ log[k].e \in {"return", "throw"}

\* a request of one caller is enqueued while the provider call of another
\* caller's request is pending
C1_Witness ==
  \E w \in workers :
    /\ w.pc \in {"deepl", "gemini", "retry"}
    /\ Len(queue) > 0
    /\ queue[1].ws # w.req.ws

(* C2: for requests of two distinct callers A then B, A enqueued while the  *)
(* worker is idle, handleRequest(A) has returned and every terminal outcome *)
(* of A has been sent before B's provider call begins, also when B is       *)
(* enqueued while A's provider call is pending.                             *)

C2_SerialOrdering ==
  \A a, b \in TextInputNs :
    (a < b /\ RecvOf(a).ws # RecvOf(b).ws /\ EnqueuedIdle(a))
      => \A j \in At(b, "call") :
           /\ \E i \in At(a, "return") : i < j
           /\ \A i \in Terminals(a) : i < j

\* B was enqueued while A's provider call was pending, A's outcome was sent,
\* and B's provider call has begun
C2_Witness ==
  \E a, b \in TextInputNs :
    /\ a < b /\ RecvOf(a).ws # RecvOf(b).ws /\ EnqueuedIdle(a)
    /\ \E i \in At(a, "call"), j \in At(b, "enqueue"), k \in Terminals(a),
          l \in At(b, "call") : i < j /\ j < k /\ k < l

(* C3: for every text_input whose text is non-empty after trimming and for  *)
(* every provider behaviour, handleRequest delivers exactly one terminal    *)
(* outcome: a translation (text followed by turn_complete), or an error or  *)
(* rate_limit(limited = true) message; never both and never none.           *)

NonEmptyText(n) ==
  LET d == RecvOf(n).data
  IN d.present /\ d.textKind = "string" /\ Len(Trim(d.text)) > 0

C3_ExactlyOneOutcome ==
  \A n \in TextInputNs :
    (NonEmptyText(n) /\ Seen(n, "return"))
      => /\ Cardinality(Terminals(n)) = 1
         /\ \A i \in Terminals(n) :
              log[i].type = "text"
                => i < Len(log) /\ log[i + 1].n = n /\ log[i + 1].type = "turn_complete"

(* C4: the pending queue holds at most one not-yet-started request per      *)
(* caller handle: a caller's new request replaces its queued one in place.  *)

C4_OnePendingPerCaller ==
  \A i, j \in 1..Len(queue) : i < j => queue[i].ws # queue[j].ws

(* C5: of two requests that one caller enqueues before the first is         *)
(* dequeued, only the second is processed: the first never reaches          *)
(* handleRequest and never causes a provider call.                          *)

C5_SecondPayloadOnly ==
  \A a, b \in TextInputNs :
    (a < b /\ RecvOf(a).ws = RecvOf(b).ws)
      => ~ \E i \in At(a, "start") \cup At(a, "call"), j \in At(b, "recv") : j < i

(* C6: an exception raised inside handleRequest never aborts the worker     *)
(* loop: process() is not rejected, so the loop goes on to the next queued  *)
(* request and the processing flag is reset once the queue is drained.      *)

C6_FailureNeverAbortsLoop ==
  /\ \A i \in Idx : log[i].e # "abort"
  /\ workers = {} => ~processing

(* C7: every malformed inbound message (unparseable JSON, config without    *)
(* data, text_input without data) is answered with exactly one generic      *)
(* error message to its sender, and the scheduler keeps serving.            *)

Malformed(ev) ==
  \/ ev.type = "badjson"
  \/ ev.type \in {"config", "text_input"} /\ ~ev.data.present

C7_MalformedGetsOneError ==
  \A r \in Idx :
    (/\ log[r].e = "recv"
     /\ Malformed(log[r])
     /\ log[r].type = "text_input" => Settled(log[r].n))
      => /\ Cardinality({i \in Terminals(log[r].n) :
                           log[i].type = "error" /\ log[i].ws = log[r].ws}) = 1
         /\ ~Seen(log[r].n, "abort")

(* C8: the identical (text, sourceLang, targetLang, persona) submitted twice *)
(* with no eviction of its entry in between: the second request causes no   *)
(* provider call and is answered from the cache with the text the first     *)
(* request was answered with, on the DeepL path and on the Gemini path.     *)

TextSends(n) == {i \in Idx : log[i].n = n /\ log[i].e = "send" /\ log[i].type = "text"}

KeyOf(n) ==
  LET d == RecvOf(n).data IN GetKey(d.text, d.sourceLang, d.targetLang, d.persona)

\* a was answered at i, b started at j, and the entry was not evicted in between
Resubmitted(a, b, i, j) ==
  /\ a < b /\ RecvOf(a).data = RecvOf(b).data
  /\ i < j
  /\ ~ \E k \in i..j : log[k].e = "evict" /\ log[k].content = KeyOf(a)

C8_CacheIdempotence ==
  \A a, b \in TextInputNs : \A i \in TextSends(a), j \in At(b, "start") :
    Resubmitted(a, b, i, j)
      => /\ At(b, "call") = {}
         /\ Seen(b, "hit")
         /\ Cardinality(TextSends(b)) = 1
         /\ \A k \in TextSends(b) : log[k].content = log[i].content

\* the first request was translated by a Gemini call, the second was a hit
C8_Witness ==
  \E a, b \in TextInputNs : \E i \in TextSends(a), j \in At(b, "start") :
    /\ Resubmitted(a, b, i, j)
    /\ \E k \in At(a, "call") : log[k].type = "gemini"
    /\ Seen(b, "hit") /\ TextSends(b) # {}

(* C9: the translation cache never holds more than maxSize entries.         *)

C9_CacheBounded == Len(cache) <= maxSize

\* the cache is full right after an insertion that had to evict
C9_Witness ==
  /\ Len(cache) = maxSize
  /\ \E i \in Idx : log[i].e = "evict"

(* C10: insertion order is the sole eviction criterion: an evicted entry is *)
(* the first inserted among those present, a cache hit never changes which  *)
(* entry is evicted next, and inserting a new key into a full cache leaves  *)
(* maxSize entries with the first inserted one gone.                        *)

CacheKeys(c) == {c[i].key : i \in 1..Len(c)}

EvictNext(c) == IF c = <<>> THEN <<>> ELSE Head(c).key

HitServed == \E i \in (Len(log) + 1)..Len(log') : log'[i].e = "hit"

C10_InsertionOrderOnly ==
  [][/\ CacheKeys(cache) \ CacheKeys(cache') \subseteq {EvictNext(cache)}
     /\ HitServed => EvictNext(cache') = EvictNext(cache)
     /\ (Len(cache) = maxSize /\ CacheKeys(cache') \ CacheKeys(cache) # {})
          => /\ Len(cache') = maxSize
             /\ EvictNext(cache) \notin CacheKeys(cache')]_vars

----------------------------------------------------------------------------
(* The cache key under texts and language names that contain the separator *)

\* message.data with every field of the request chosen by the caller
DataOf(text, sourceLang, targetLang, persona) ==
  [Data(text, persona) EXCEPT !.sourceLang = sourceLang, !.targetLang = targetLang]

KeyTexts == {<<"a">>, <<"a", "|", "j">>}

KeyLangs == {<<"a">>, <<"j", "|", "a">>}

KeyMessages ==
  {TextInput(DataOf(t, l, EN, p)) : t \in KeyTexts, l \in KeyLangs, p \in Personas} \cup
  {[type |-> "rate_status", data |-> NoData]}

NextKey == NextOver({"w1"}, KeyMessages, CacheOutcomes, MaxPair)

SpecKey == InitCache /\ [][NextKey]_vars

(* C11: two requests map to the same cache key exactly when their text,    *)
(* source language, target language and persona all match; requests that   *)
(* differ in a field, texts and language names containing "|" included,    *)
(* never share a key.                                                       *)

SameFields(a, b) ==
  LET d == RecvOf(a).data
      f == RecvOf(b).data
  IN /\ d.text = f.text
     /\ d.sourceLang = f.sourceLang
     /\ d.targetLang = f.targetLang
     /\ d.persona = f.persona

C11_KeyIdentifiesFields ==
  \A a, b \in TextInputNs : (KeyOf(a) = KeyOf(b)) <=> SameFields(a, b)

----------------------------------------------------------------------------
(* The credential pool under styled requests of one caller, for every      *)
(* configuration of the limits, with time passing                           *)

LimiterMessages == {TextInput(Data(t, CAT)) : t \in {<<"a">>, <<"b">>}}

LimiterOutcomes == {Outcome(TRUE, <<"X">>), Outcome(FALSE, "429")}

InitLimiter == Init /\ ~env.mock /\ ~env.deepl

\* without time passing: styled requests answered, refused with a quota
\* error, or retried
NextPool ==
  \/ \E m \in LimiterMessages, rnd \in Randoms : ReceiveTextInput("w1", m, rnd, MaxPair)
  \/ \E w \in workers, rnd \in Randoms : ProcessResume(w, rnd)
  \/ \E w \in workers, out \in LimiterOutcomes : GeminiSettle(w, out)
  \/ \E w \in workers, out \in LimiterOutcomes : RetrySettle(w, out)

SpecPool == InitLimiter /\ [][NextPool]_vars

\* with time passing: styled requests answered by their first provider call
WindowOutcomes == {Outcome(TRUE, <<"X">>)}

NextWindow ==
  \/ \E m \in LimiterMessages, rnd \in Randoms : ReceiveTextInput("w1", m, rnd, MaxPair)
  \/ \E w \in workers, rnd \in Randoms : ProcessResume(w, rnd)
  \/ \E w \in workers, out \in WindowOutcomes : GeminiSettle(w, out)
  \/ Tick

SpecWindow == InitLimiter /\ [][NextWindow]_vars

----------------------------------------------------------------------------
(* Claims about RateLimiter *)

\* how many of the timestamps ts are younger than window at time t
Younger(ts, t, window) == Cardinality({i \in 1..Len(ts) : t - ts[i] < window})

\* how many of the timestamps ts were recorded at time t
RecordedAt(ts, t) == Cardinality({i \in 1..Len(ts) : ts[i] = t})

\* the latest timestamp a limiter holds (0 when it holds none)
Latest(l) ==
  IF l.dayRequests = <<>> THEN 0
  ELSE CHOOSE x \in {l.dayRequests[i] : i \in 1..Len(l.dayRequests)} :
         \A i \in 1..Len(l.dayRequests) : l.dayRequests[i] <= x

(* C12: the short window slides: once rpm requests were recorded at time t, *)
(* check() at t answers allowed = false, and check() at any time from       *)
(* t + 60 s on answers allowed = true when the day limit is not reached;    *)
(* check() always reports minuteRemaining + minuteUsed = rpm and            *)
(* dayRemaining + dayUsed = rpd.                                            *)

C12_SlidingWindow ==
  \A k \in Keys :
    LET l == pool[k]
        st == LimiterCheck(l, now)
    IN /\ RecordedAt(l.minuteRequests, now) >= l.rpm => ~st.allowed
       /\ \A u \in {Latest(l) + MinuteWindow, Latest(l) + MinuteWindow + 1, now + MinuteWindow} :
            Younger(l.dayRequests, u, DayWindow) < l.rpd => LimiterCheck(l, u).allowed
       /\ st.minuteRemaining + st.minuteUsed = l.rpm
       /\ st.dayRemaining + st.dayUsed = l.rpd

\* a credential with a short limit above 1 that took all its requests just now,
\* after time had passed, and that has not reached its day limit
C12_Witness ==
  \E k \in Keys :
    /\ pool[k].rpm = GEMINI_RPM
    /\ now > 0
    /\ RecordedAt(pool[k].minuteRequests, now) = pool[k].rpm
    /\ Len(pool[k].dayRequests) < pool[k].rpd

(* C13: check() first drops every timestamp that is 60 s old or older from  *)
(* the short window and every timestamp that is 24 h old or older from the  *)
(* long one; allowed is true exactly when fewer than rpm and fewer than rpd *)
(* timestamps survive; each reset-in time is the window minus the age of    *)
(* the oldest surviving timestamp, and 0 when none survives.                *)

Elems(ts) == {ts[i] : i \in 1..Len(ts)}

\* the oldest of the timestamps ts that are younger than window at time t
OldestYounger(ts, t, window) ==
  CHOOSE x \in {y \in Elems(ts) : t - y < window} :
    \A y \in Elems(ts) : t - y < window => x <= y

\* kept is what is left of ts once the timestamps as old as window are dropped
Pruned(ts, kept, t, window) ==
  /\ Len(kept) = Younger(ts, t, window)
  /\ \A i \in 1..Len(kept) : t - kept[i] < window /\ kept[i] \in Elems(ts)

ResetIn(ts, t, window) ==
  IF Younger(ts, t, window) = 0 THEN 0 ELSE window - (t - OldestYounger(ts, t, window))

C13_CheckPrunesAndReports ==
  \A k \in Keys :
    LET l == pool[k]
        st == LimiterCheck(l, now)
    IN /\ Pruned(l.minuteRequests, st.limiter.minuteRequests, now, MinuteWindow)
       /\ Pruned(l.dayRequests, st.limiter.dayRequests, now, DayWindow)
       /\ st.allowed <=> /\ Younger(l.minuteRequests, now, MinuteWindow) < l.rpm
                          /\ Younger(l.dayRequests, now, DayWindow) < l.rpd
       /\ st.minuteResetIn = ResetIn(l.minuteRequests, now, MinuteWindow)
       /\ st.dayResetIn = ResetIn(l.dayRequests, now, DayWindow)

\* a limiter holding two requests recorded at different times, both young
C13_Witness ==
  \E k \in Keys :
    /\ Younger(pool[k].minuteRequests, now, MinuteWindow) = 2
    /\ Cardinality(Elems(pool[k].minuteRequests)) = 2

----------------------------------------------------------------------------
(* Claims about KeyPool *)

\* credential k may take a request now
Allowed(k) ==
  /\ Younger(pool[k].minuteRequests, now, MinuteWindow) < pool[k].rpm
  /\ Younger(pool[k].dayRequests, now, DayWindow) < pool[k].rpd

(* C14: getAvailableKey returns the allowed credential of the lowest index, *)
(* and returns null exactly when no credential is allowed.                  *)

C14_LowestAllowedKey ==
  LET key == GetAvailableKey(pool, now).key
  IN /\ key = 0 <=> \A k \in Keys : ~Allowed(k)
     /\ key # 0 => /\ key \in Keys /\ Allowed(key)
                   /\ \A j \in Keys : j < key => ~Allowed(j)

\* the first credential is exhausted, a later one is allowed and was handed out
C14_Witness ==
  /\ ~Allowed(1)
  /\ \E k \in Keys : Allowed(k)
  /\ \E i \in Idx : log[i].e = "call" /\ log[i].key > 1

(* C15: getAggregatedStatus reports allowed exactly when at least one       *)
(* credential is allowed, reports as remaining the sums of the credentials' *)
(* remaining short-window and long-window requests, and reports as waitTime *)
(* the least reset-in time of the short window among the credentials that   *)
(* are not allowed, 0 when every credential is allowed.                     *)

RECURSIVE Total(_, _)
Total(f, n) == IF n = 0 THEN 0 ELSE f[n] + Total(f, n - 1)

MinuteLeft(k) ==
  Max0(pool[k].rpm - Younger(pool[k].minuteRequests, now, MinuteWindow))

DayLeft(k) ==
  Max0(pool[k].rpd - Younger(pool[k].dayRequests, now, DayWindow))

Blocked == {k \in Keys : ~Allowed(k)}

ShortResetIn(k) == ResetIn(pool[k].minuteRequests, now, MinuteWindow)

C15_AggregatedStatus ==
  LET s == GetAggregatedStatus(pool, now)
  IN /\ s.allowed <=> \E k \in Keys : Allowed(k)
     /\ s.minuteRemaining = Total([k \in Keys |-> MinuteLeft(k)], NumKeys)
     /\ s.dayRemaining = Total([k \in Keys |-> DayLeft(k)], NumKeys)
     /\ IF Blocked = {} THEN s.waitTime = 0
        ELSE /\ \E k \in Blocked : s.waitTime = ShortResetIn(k)
             /\ \A k \in Blocked : s.waitTime <= ShortResetIn(k)

\* two credentials are exhausted and their short windows free at different times
C15_Witness ==
  \E k, j \in Blocked :
    /\ ShortResetIn(j) < ShortResetIn(k)
    /\ GetAggregatedStatus(pool, now).waitTime = ShortResetIn(j)

----------------------------------------------------------------------------
(* Fail-over between the credentials: distinct styled requests of one      *)
(* caller, every provider call succeeding, inside one short window          *)

\* the n-th request of the caller: a text of n letters, so that no two
\* requests have the same cache key
FailoverMessage(n) == TextInput(Data([i \in 1..n |-> "a"], CAT))

NextFailover ==
  \/ \E rnd \in Randoms : ReceiveTextInput("w1", FailoverMessage(received + 1), rnd, MaxMsgs)
  \/ \E w \in workers, rnd \in Randoms : ProcessResume(w, rnd)
  \/ \E w \in workers, out \in WindowOutcomes : GeminiSettle(w, out)
  \/ TickBy(1000)

SpecFailover == InitLimiter /\ [][NextFailover]_vars

\* the history events that the step adds
NewIdx == (Len(log) + 1)..Len(log')

\* message.data of inbound message n, read after the step
DataOfStarted(n) == log'[CHOOSE i \in 1..Len(log') : log'[i].e = "recv" /\ log'[i].n = n].data

\* n is a styled request with a text that the cache does not hold
StyledMiss(n) ==
  LET d == DataOfStarted(n)
  IN /\ d.present /\ d.textKind = "string" /\ Len(Trim(d.text)) > 0
     /\ d.persona # <<>> /\ d.persona # NONE
     /\ ~CacheHas(cache, GetKey(d.text, d.sourceLang, d.targetLang, d.persona))

LongNotBinding == \A k \in Keys : Younger(pool[k].dayRequests, now, DayWindow) < pool[k].rpd

(* C16: with every provider call succeeding and the long limit not binding, *)
(* a styled cache-miss request is sent to the credential of the lowest      *)
(* index that holds fewer than rpm requests in its short window, so that    *)
(* the first NumKeys * rpm requests of one short window all succeed in      *)
(* priority order; once every credential holds rpm requests the request is  *)
(* rejected with a rate_limit that is not a daily one and whose waitTime is *)
(* the least time until a credential's short window frees.                  *)

C16_FailoverInOrder ==
  [][\A i \in NewIdx :
       (log'[i].e = "start" /\ StyledMiss(log'[i].n) /\ LongNotBinding) =>
         IF \E k \in Keys : Allowed(k)
         THEN \E j \in NewIdx :
                /\ log'[j].e = "call" /\ log'[j].n = log'[i].n
                /\ Allowed(log'[j].key)
                /\ \A k \in Keys : k < log'[j].key => ~Allowed(k)
         ELSE \E j \in NewIdx :
                /\ log'[j].e = "send" /\ log'[j].n = log'[i].n
                /\ log'[j].type = "rate_limit" /\ log'[j].limited
                /\ ~log'[j].isDailyLimit
                /\ \E k \in Keys : log'[j].waitTime = ShortResetIn(k)
                /\ \A k \in Keys : log'[j].waitTime <= ShortResetIn(k)
                /\ \A j2 \in NewIdx : log'[j2].e # "call"]_vars

\* every credential answered a request, at different times, and the next
\* request was rejected
C16_Witness ==
  /\ \A k \in Keys : \E i \in Idx : log[i].e = "resolved" /\ log[i].key = k
  /\ \E i \in Idx :
       /\ log[i].e = "send" /\ log[i].type = "rate_limit" /\ log[i].limited
       /\ ~log[i].isDailyLimit
       /\ log[i].waitTime > 0 /\ log[i].waitTime < MinuteWindow

----------------------------------------------------------------------------
(* Claims about the pre-check of handleRequest *)

\* the step adds no timestamp to any limiter
NothingRecorded ==
  \A k \in Keys :
    /\ Len(pool'[k].minuteRequests) <= Len(pool[k].minuteRequests)
    /\ Len(pool'[k].dayRequests) <= Len(pool[k].dayRequests)
    /\ Elems(pool'[k].minuteRequests) \subseteq Elems(pool[k].minuteRequests)
    /\ Elems(pool'[k].dayRequests) \subseteq Elems(pool[k].dayRequests)

\* the step sends inbound message n a rate_limit with limited = true
LimitedNow(n) ==
  \E j \in NewIdx :
    /\ log'[j].e = "send" /\ log'[j].n = n
    /\ log'[j].type = "rate_limit" /\ log'[j].limited

(* C17: a styled cache-miss request that starts when no credential is       *)
(* allowed is failed at once with a rate_limit whose limited is true: no    *)
(* provider call is made for it and no limiter records anything.            *)

C17_RejectedWithoutCall ==
  [][\A i \in NewIdx :
       (log'[i].e = "start" /\ StyledMiss(log'[i].n) /\ \A k \in Keys : ~Allowed(k)) =>
         /\ LimitedNow(log'[i].n)
         /\ \E j \in NewIdx : log'[j].e = "return" /\ log'[j].n = log'[i].n
         /\ \A j \in 1..Len(log') : ~(log'[j].e = "call" /\ log'[j].n = log'[i].n)
         /\ NothingRecorded]_vars

\* a request was rejected before any provider call was made for it
C17_Witness ==
  \E i \in Idx :
    /\ log[i].e = "send" /\ log[i].type = "rate_limit" /\ log[i].limited
    /\ ~Seen(log[i].n, "call")
    /\ Seen(log[i].n, "return")

\* Styled requests over one and several short windows: distinct requests of
\* one caller, who sends the next one when the scheduler is idle, answered or
\* refused with a quota error, a minute passing
DailyMessage(n) == TextInput(Data([i \in 1..n |-> "a"], CAT))

NextDaily ==
  \/ /\ ~processing
     /\ \E rnd \in Randoms : ReceiveTextInput("w1", DailyMessage(received + 1), rnd, MaxMsgs)
  \/ \E w \in workers, rnd \in Randoms : ProcessResume(w, rnd)
  \/ \E w \in workers, out \in LimiterOutcomes : GeminiSettle(w, out)
  \/ \E w \in workers, out \in LimiterOutcomes : RetrySettle(w, out)
  \/ TickBy(MinuteWindow)

SpecDaily == InitLimiter /\ [][NextDaily]_vars

DayExhausted(k) == Younger(pool[k].dayRequests, now, DayWindow) >= pool[k].rpd

\* the step rejects a request at its pre-check: event j is the rate_limit
PreCheckRejection(j) ==
  /\ log'[j].e = "send" /\ log'[j].type = "rate_limit" /\ log'[j].limited
  /\ \E i \in NewIdx : log'[i].e = "start" /\ log'[i].n = log'[j].n

(* C18: a pre-check rejection carries isDailyLimit = true exactly when      *)
(* every credential has used up its long window, and isDailyLimit = false   *)
(* exactly when at least one credential is blocked by its short window      *)
(* only.                                                                    *)

C18_DailyIffAllDaysUsed ==
  [][\A j \in NewIdx :
       PreCheckRejection(j) =>
         /\ log'[j].isDailyLimit <=> \A k \in Keys : DayExhausted(k)
         /\ ~log'[j].isDailyLimit <=> \E k \in Keys : ~Allowed(k) /\ ~DayExhausted(k)]_vars

\* the last request was rejected at its pre-check as not a daily rejection
\* while one credential had used up its day and another had not
C18_Witness ==
  /\ \E k \in Keys : DayExhausted(k)
  /\ \E k \in Keys : ~DayExhausted(k)
  /\ \E i \in Idx :
       /\ log[i].e = "send" /\ log[i].type = "rate_limit" /\ log[i].limited
       /\ ~log[i].isDailyLimit
       /\ log[i].n = received
       /\ ~Seen(received, "call")

----------------------------------------------------------------------------
(* Claims about the provider calls of handleRequest *)

(* C19: when a provider call made with credential k succeeds, the limiter   *)
(* of k gets exactly one new timestamp, in its short and in its long        *)
(* window, and no other limiter changes; timestamps are added only when a   *)
(* provider call settles, so a request that ends without a provider call    *)
(* adds none.                                                               *)

C19_OneRecordPerSuccess ==
  [][/\ \A i \in NewIdx :
          (log'[i].e = "resolved" /\ log'[i].type = "gemini") =>
            /\ pool'[log'[i].key].minuteRequests = Append(pool[log'[i].key].minuteRequests, now)
            /\ pool'[log'[i].key].dayRequests = Append(pool[log'[i].key].dayRequests, now)
            /\ \A j \in Keys \ {log'[i].key} : pool'[j] = pool[j]
     /\ (\A i \in NewIdx : log'[i].e \notin {"resolved", "rejected"}) => NothingRecorded]_vars

\* a call with a credential other than the first succeeded, and a request
\* ended without any provider call
C19_Witness ==
  /\ \E i \in Idx : log[i].e = "resolved" /\ log[i].key > 1
  /\ \E n \in TextInputNs : Seen(n, "return") /\ ~Seen(n, "call")

(* C20: a request causes at most two provider calls, the first one and one  *)
(* retry, also when the retry is refused with a quota error while a further *)
(* credential is allowed.                                                   *)

C20_AtMostTwoCalls == \A n \in TextInputNs : Cardinality(At(n, "call")) <= 2

\* both calls of a request were refused and the request has ended, while a
\* credential that the request never used is allowed
C20_Witness ==
  \E n \in TextInputNs :
    /\ Cardinality(At(n, "call")) = 2
    /\ Cardinality(At(n, "rejected")) = 2
    /\ Seen(n, "return")
    /\ \E k \in Keys : Allowed(k) /\ \A i \in At(n, "call") : log[i].key # k

----------------------------------------------------------------------------
(* Claims about the retry of handleRequest *)

\* event i, added by the step, is a Gemini call refused with a quota-shaped error
QuotaRefusal(i) ==
  log'[i].e = "rejected" /\ log'[i].type = "gemini" /\ QuotaShaped(log'[i].detail)

\* the step issues a provider call for inbound message n
CallsNow(n) == {j \in NewIdx : log'[j].e = "call" /\ log'[j].n = n}

(* C21: when the first provider call of a request is refused with a        *)
(* quota-shaped error, the retry goes to a credential other than the one    *)
(* that was refused; when no other credential is allowed there is no retry  *)
(* and the request ends with a rate_limit whose limited is true.            *)

C21_RetryOnOtherCredential ==
  [][\A i \in NewIdx :
       (QuotaRefusal(i) /\ Cardinality(At(log'[i].n, "call")) = 1) =>
         /\ \A j \in CallsNow(log'[i].n) : log'[j].key # log'[i].key
         /\ (\A c \in Keys \ {log'[i].key} : ~Allowed(c)) =>
              (CallsNow(log'[i].n) = {} /\ LimitedNow(log'[i].n))]_vars

(* C22: whenever a provider call, the first one or the retry, is refused    *)
(* with a quota-shaped error, the limiter of the credential that made the   *)
(* call records one request.                                                *)

C22_RefusalIsRecorded ==
  [][\A i \in NewIdx :
       QuotaRefusal(i) =>
         /\ RecordedAt(pool'[log'[i].key].minuteRequests, now)
              = RecordedAt(pool[log'[i].key].minuteRequests, now) + 1
         /\ RecordedAt(pool'[log'[i].key].dayRequests, now)
              = RecordedAt(pool[log'[i].key].dayRequests, now) + 1]_vars

----------------------------------------------------------------------------
(* Styled requests answered, refused with a quota error or failing with     *)
(* another error                                                            *)

ErrorOutcomes ==
  {Outcome(TRUE, <<"X">>), Outcome(FALSE, "429"), Outcome(FALSE, "other")}

NextErrors ==
  \/ \E m \in LimiterMessages, rnd \in Randoms : ReceiveTextInput("w1", m, rnd, MaxPair)
  \/ \E w \in workers, rnd \in Randoms : ProcessResume(w, rnd)
  \/ \E w \in workers, out \in ErrorOutcomes : GeminiSettle(w, out)
  \/ \E w \in workers, out \in ErrorOutcomes : RetrySettle(w, out)

SpecErrors == InitLimiter /\ [][NextErrors]_vars

\* what the step sends in answer to inbound message n
SendsNow(n) == {j \in NewIdx : log'[j].e = "send" /\ log'[j].n = n}

(* C23: when the first provider call of a request fails with an error that  *)
(* is not quota-shaped ("other": it has no status 429 and names neither 429 *)
(* nor rate nor quota), the request ends there: no further provider call,   *)
(* nothing recorded on any limiter, and one message to the caller, the      *)
(* error "Translation failed".                                              *)

C23_OtherErrorNotRetried ==
  [][\A i \in NewIdx :
       (/\ log'[i].e = "rejected" /\ log'[i].type = "gemini"
        /\ log'[i].detail = "other"
        /\ Cardinality(At(log'[i].n, "call")) = 1) =>
         /\ CallsNow(log'[i].n) = {}
         /\ NothingRecorded
         /\ \E j \in NewIdx : log'[j].e = "return" /\ log'[j].n = log'[i].n
         /\ Cardinality(SendsNow(log'[i].n)) = 1
         /\ \A j \in SendsNow(log'[i].n) :
              log'[j].type = "error" /\ log'[j].detail = "Translation failed"]_vars

\* a request ended with the error after one call that failed otherwise than
\* by quota
C23_Witness ==
  \E n \in TextInputNs :
    /\ \E i \in At(n, "rejected") : log[i].detail = "other"
    /\ Cardinality(At(n, "call")) = 1
    /\ Seen(n, "return")
    /\ \E i \in At(n, "send") : log[i].type = "error"

----------------------------------------------------------------------------------------------------------------------------------------
(* Requests with an empty or a blank text among requests with a text *)

BlankMessages ==
  {TextInput(Data(<<>>, CAT)), TextInput(Data(<<" ">>, <<>>)), TextInput(Data(<<"a">>, CAT))}

BlankOutcomes == {Outcome(TRUE, <<"X">>), Outcome(FALSE, "other")}

NextBlank ==
  \/ \E m \in BlankMessages, rnd \in Randoms : ReceiveTextInput("w1", m, rnd, MaxPair)
  \/ \E w \in workers, rnd \in Randoms : ProcessResume(w, rnd)
  \/ \E w \in workers, out \in BlankOutcomes : GeminiSettle(w, out)

SpecBlank == InitQueue /\ [][NextBlank]_vars

\* a text that is empty or consists of spaces
Blank(d) ==
  d.present /\ d.textKind = "string" /\ \A i \in 1..Len(d.text) : d.text[i] = " "

\* inbound message n was a blank text_input and handleRequest has returned from it
BlankDone(n) == n \in TextInputNs /\ Blank(RecvOf(n).data) /\ Seen(n, "return")

(* C24: a text_input whose text is empty or blank is dropped silently: the  *)
(* step that starts it also ends it, with no provider call, no message to   *)
(* the caller, and the cache and every limiter unchanged; the loop of       *)
(* process() stays alive, and when it goes on it starts the request at the  *)
(* head of the queue.                                                       *)

C24_BlankDroppedSilently ==
  [][/\ \A i \in NewIdx :
          (log'[i].e = "start" /\ Blank(DataOfStarted(log'[i].n))) =>
            /\ \E j \in NewIdx : log'[j].e = "return" /\ log'[j].n = log'[i].n
            /\ \A j \in 1..Len(log') :
                 log'[j].n = log'[i].n => log'[j].e \in {"recv", "enqueue", "start", "return"}
            /\ cache' = cache
            /\ pool' = pool
            /\ processing'
            /\ \E w \in workers' : w.req.n = log'[i].n /\ w.pc = "returned"
     /\ \A w \in workers :
          (BlankDone(w.req.n) /\ queue # <<>> /\ w \notin workers') =>
            \E i \in NewIdx : log'[i].e = "start" /\ log'[i].n = Head(queue).n]_vars

\* a blank request has been dropped and another request waits behind it
C24_Witness ==
  /\ queue # <<>>
  /\ \E w \in workers : BlankDone(w.req.n)

----------------------------------------------------------------------------
(* Claims about the cache hit and the routing of handleRequest *)

\* the cache entries that hold the translation of inbound message n
EntriesFor(n) ==
  LET d == DataOfStarted(n)
  IN {e \in 1..Len(cache) :
        cache[e].key = GetKey(d.text, d.sourceLang, d.targetLang, d.persona)}

(* C25: a request whose translation is in the cache is answered from the    *)
(* cache in the step that starts it: the cached text and turn_complete are  *)
(* sent, no provider call is made, no rate_limit is sent and no limiter     *)
(* changes, whatever the state of the credentials and of the translator.    *)

C25_HitGoesToDelivery ==
  [][\A i \in NewIdx :
       (/\ log'[i].e = "start"
        /\ DataOfStarted(log'[i].n).present
        /\ ~Blank(DataOfStarted(log'[i].n))
        /\ EntriesFor(log'[i].n) # {}) =>
         /\ \E j \in SendsNow(log'[i].n), e \in EntriesFor(log'[i].n) :
              log'[j].type = "text" /\ log'[j].content = cache[e].value
         /\ \A j \in SendsNow(log'[i].n) : log'[j].type \in {"text", "turn_complete"}
         /\ \E j \in NewIdx : log'[j].e = "return" /\ log'[j].n = log'[i].n
         /\ \A j \in 1..Len(log') : ~(log'[j].e = "call" /\ log'[j].n = log'[i].n)
         /\ pool' = pool]_vars

\* a cached translation was delivered while no credential was allowed
C25_Witness ==
  /\ \A k \in Keys : ~Allowed(k)
  /\ \E n \in TextInputNs : Seen(n, "hit") /\ TextSends(n) # {} /\ ~Seen(n, "call")

\* Routing: requests without a persona, with the persona 'none' and with a
\* style, with and without mock mode, with and without a translator
RouteMessages ==
  {TextInput(Data(<<"a">>, p)) : p \in {<<>>, NONE, CAT}} \cup
  {[type |-> "rate_status", data |-> NoData]}

RouteOutcomes == {Outcome(TRUE, <<"X">>), Outcome(FALSE, "429")}

InitRoute == Init /\ pool = NewPool

NextRoute == NextOver({"w1"}, RouteMessages, RouteOutcomes, MaxPair)

SpecRoute == InitRoute /\ [][NextRoute]_vars

\* inbound message n asks for no style
Unstyled(n) == DataOfStarted(n).persona \in {<<>>, NONE}

\* inbound message n is a text_input with a text that the cache does not hold
Miss(n) ==
  /\ DataOfStarted(n).present
  /\ DataOfStarted(n).textKind = "string"
  /\ ~Blank(DataOfStarted(n))
  /\ EntriesFor(n) = {}

\* the provider calls made so far, after the step, for inbound message n
CallsOf(n) == {j \in 1..Len(log') : log'[j].e = "call" /\ log'[j].n = n}

(* C26: on a cache miss a request without persona, or with the persona      *)
(* 'none', goes to DeepL and leaves the credential pool alone, when it      *)
(* starts and when its call settles; a request with another persona goes to *)
(* Gemini, or to the mock translator when mock mode is on, and never to     *)
(* DeepL.                                                                   *)

C26_Routing ==
  [][/\ \A i \in NewIdx :
          (log'[i].e = "start" /\ Miss(log'[i].n)) =>
            IF Unstyled(log'[i].n)
            THEN /\ \A j \in CallsNow(log'[i].n) : log'[j].type = "deepl"
                 /\ env.deepl => CallsNow(log'[i].n) # {}
                 /\ pool' = pool
            ELSE /\ \A j \in CallsNow(log'[i].n) : log'[j].type = "gemini"
                 /\ env.mock =>
                      /\ CallsNow(log'[i].n) = {}
                      /\ \E j \in SendsNow(log'[i].n) :
                           /\ log'[j].type = "text"
                           /\ SubSeq(log'[j].content, 1, Len(MOCKPREFIX)) = MOCKPREFIX
                 /\ ~env.mock =>
                      \/ CallsNow(log'[i].n) # {}
                      \/ \E j \in SendsNow(log'[i].n) : log'[j].type = "rate_limit" /\ log'[j].limited
     /\ \A i \in NewIdx :
          log'[i].e \in {"resolved", "rejected"} =>
            IF Unstyled(log'[i].n)
            THEN pool' = pool /\ \A j \in CallsOf(log'[i].n) : log'[j].type = "deepl"
            ELSE \A j \in CallsOf(log'[i].n) : log'[j].type = "gemini"]_vars

\* a request with the persona 'none' was answered by DeepL and a styled one
\* by Gemini
C26_Witness ==
  \E n, m \in TextInputNs :
    /\ RecvOf(n).data.persona = NONE
    /\ \E i \in At(n, "resolved") : log[i].type = "deepl"
    /\ RecvOf(m).data.persona = CAT
    /\ \E i \in At(m, "resolved") : log[i].type = "gemini"

(* C27: with mock mode on, no request, with or without persona, leads to a  *)
(* provider call, and the translation the mock translator gives is fixed by *)
(* the text, the languages and the persona of the request.                  *)

MockOutputs(d) ==
  {MockTranslate(d.text, d.sourceLang, d.targetLang, d.persona, rnd) : rnd \in Randoms}

C27_MockCallsNoProvider ==
  env.mock =>
    /\ \A i \in Idx : log[i].e # "call"
    /\ \A n \in TextInputNs :
         RecvOf(n).data.present => Cardinality(MockOutputs(RecvOf(n).data)) = 1

----------------------------------------------------------------------------
(* Claims about the quota of the volume-billed provider *)

\* the characters DeepL has translated before history event i
UnitsUsedBefore(i) ==
  Total([n \in 1..received |->
           IF \E j \in At(n, "resolved") : j < i /\ log[j].type = "deepl"
           THEN Len(RecvOf(n).data.text) ELSE 0], received)

(* C28: DeepL is called for a request only when the characters translated   *)
(* so far plus the length of its text stay within the monthly limit         *)
(* (MonthlyLimit characters here); otherwise the request fails with a       *)
(* quota-exceeded outcome and DeepL is not called.                          *)

C28_UnitLimiterConsulted ==
  \A i \in Idx :
    (log[i].e = "call" /\ log[i].type = "deepl") =>
      UnitsUsedBefore(i) + Len(RecvOf(log[i].n).data.text) <= MonthlyLimit

----------------------------------------------------------------------------
(* The credential pool across restarts of the process *)

\* the process stops and starts again: the module-level objects are built
\* anew from the environment, and what was queued or in flight is gone
Restart ==
  /\ queue' = <<>>
  /\ processing' = FALSE
  /\ workers' = {}
  /\ cache' = <<>>
  /\ pool' = [k \in DOMAIN pool |-> RateLimiter(pool[k].rpm, pool[k].rpd)]
  /\ wsPersona' = [w \in Callers |-> <<>>]
  /\ UNCHANGED <<env, now, received, ticks, log, hook>>

NextRestart == NextPool \/ Restart

SpecRestart == InitLimiter /\ [][NextRestart]_vars

(* C29: the quota state survives a restart: a check() right after the       *)
(* restart gives every credential the allowed verdict that a check() right  *)
(* before it gave.                                                          *)

C29_VerdictSurvivesRestart ==
  [][Restart =>
       \A k \in Keys :
         LimiterCheck(pool'[k], now').allowed <=> LimiterCheck(pool[k], now).allowed]_vars

----------------------------------------------------------------------------
(* A server without Gemini credentials *)

\* no Gemini key is set in the environment: parseApiKeys() returns [],
\* the server warns and starts with an empty pool; mock mode is off
InitNoKeys ==
  /\ queue = <<>>
  /\ processing = FALSE
  /\ workers = {}
  /\ cache = <<>>
  /\ pool = <<>>
  /\ wsPersona = [w \in Callers |-> <<>>]
  /\ env \in [mock : {FALSE}, deepl : BOOLEAN]
  /\ now = 0
  /\ received = 0
  /\ ticks = 0
  /\ log = <<>>
  /\ hook = NewHook

\* without a credential no Gemini call is ever in flight
NextNoKeys ==
  \/ \E m \in RouteMessages : ReceiveOther("w1", m, MaxMsgs)
  \/ \E m \in RouteMessages, rnd \in Randoms : ReceiveTextInput("w1", m, rnd, MaxMsgs)
  \/ \E w \in workers, rnd \in Randoms : ProcessResume(w, rnd)
  \/ \E w \in workers, out \in RouteOutcomes : DeepLSettle(w, out)

SpecNoKeys == InitNoKeys /\ [][NextNoKeys]_vars

(* C30: with no Gemini credential configured and mock mode off, a styled    *)
(* request whose text the cache does not hold ends with an error message to *)
(* the caller, and with no rate_limit message that says limited or          *)
(* isDailyLimit.                                                            *)

C30_NoCredentialIsAnError ==
  [][\A i \in NewIdx :
       (log'[i].e = "start" /\ Miss(log'[i].n) /\ ~Unstyled(log'[i].n)
          /\ pool = <<>> /\ ~env.mock) =>
         /\ \E j \in SendsNow(log'[i].n) : log'[j].type = "error"
         /\ \A j \in SendsNow(log'[i].n) :
              log'[j].type = "rate_limit" => ~log'[j].limited /\ ~log'[j].isDailyLimit]_vars

----------------------------------------------------------------------------
(* The order of service *)

\* distinct styled requests of two callers, answered or failing
NextFifo ==
  \/ \E ws \in Callers, rnd \in Randoms :
       ReceiveTextInput(ws, FailoverMessage(received + 1), rnd, MaxMsgs)
  \/ \E w \in workers, rnd \in Randoms : ProcessResume(w, rnd)
  \/ \E w \in workers, out \in FillOutcomes : GeminiSettle(w, out)

SpecFifo == InitQueue /\ [][NextFifo]_vars

\* request a was appended to the queue before request b
AppendedBefore(a, b) == \E i \in At(a, "enqueue"), j \in At(b, "enqueue") : i < j

(* C32: requests are served in the order of their arrival in the queue: when *)
(* handleRequest starts for a request, handleRequest has started and has     *)
(* completed for every request appended before it.                           *)

C32_Fifo ==
  \A a, b \in TextInputNs :
    AppendedBefore(a, b) =>
      \A j \in At(b, "start") :
        \E i \in At(a, "start"), k \in At(a, "return") \cup At(a, "throw") :
          i < k /\ k < j

\* two requests were appended while a third was in flight, and all three
\* have been started
C32_Witness ==
  \E a, b, c \in TextInputNs :
    /\ AppendedBefore(a, b) /\ AppendedBefore(b, c)
    /\ \E i \in At(a, "start"), j \in At(b, "enqueue"), k \in At(c, "enqueue"),
          l \in At(a, "return") : i < j /\ j < k /\ k < l
    /\ Seen(b, "start") /\ Seen(c, "start")

----------------------------------------------------------------------------
(* C33: under requests, successes, quota errors, retries and the passage of *)
(* time, the timestamps a credential's limiter holds for the short window   *)
(* never number more than rpm and those for the long window never more than *)
(* rpd: nothing is recorded on a limiter that is full.                      *)

C33_LimitersNeverOverfull ==
  \A k \in Keys :
    /\ Len(pool[k].minuteRequests) <= pool[k].rpm
    /\ Len(pool[k].dayRequests) <= pool[k].rpd

\* after a quota error and after time has passed, one credential is full in
\* both windows while the other has served a request
C33_Witness ==
  /\ ticks > 0
  /\ \E i \in Idx : log[i].e = "rejected"
  /\ \E k, j \in Keys :
       /\ k # j
       /\ Len(pool[k].minuteRequests) = pool[k].rpm
       /\ Len(pool[k].dayRequests) = pool[k].rpd
       /\ \E i \in Idx : log[i].e = "resolved" /\ log[i].key = j

----------------------------------------------------------------------------
\* the entry of request n has not been evicted since history event i
KeptSince(n, i) == ~ \E k \in i..Len(log) : log[k].e = "evict" /\ log[k].content = KeyOf(n)

(* C34: once a translation has been sent to the caller it is in the cache:  *)
(* in every state, for every text message sent for a request whose cache    *)
(* key has not been evicted since, the cache holds the sent text under that *)
(* key.                                                                     *)

C34_StoredWhenSent ==
  \A n \in TextInputNs : \A i \in TextSends(n) :
    KeptSince(n, i) => CacheGet(cache, RecvOf(n).data.text, RecvOf(n).data.sourceLang,
                                RecvOf(n).data.targetLang, RecvOf(n).data.persona)
                         = log[i].content

\* a translation was sent, an entry of another request was evicted after it,
\* and the translation is still in the cache
C34_Witness ==
  \E n \in TextInputNs : \E i \in TextSends(n) :
    /\ KeptSince(n, i)
    /\ \E k \in i..Len(log) : log[k].e = "evict"
    /\ \E j \in At(n, "call") : j < i
    /\ CacheHas(cache, KeyOf(n))

----------------------------------------------------------------------------
(* C35: no request is left behind: in every state in which the queue holds  *)
(* a request, or the processing flag is up, a process() loop is running,    *)
(* whatever messages the callers have sent before.                          *)

C35_NoStrandedQueue ==
  (Len(queue) > 0 \/ processing) => workers # {}

----------------------------------------------------------------------------
(* C36: a request served from the cache leaves the cache as it was: the     *)
(* same keys with the same values in the same eviction order, also when     *)
(* the cache is full.                                                       *)

C36_HitLeavesCacheAlone ==
  [][(\E i \in NewIdx : log'[i].e = "hit") => cache' = cache]_vars

----------------------------------------------------------------------------
(* The wait time of a rejection *)

\* Styled requests of one caller, who sends the next one when the scheduler
\* is idle, answered or refused with a quota error, while seconds and
\* minutes pass, also during a provider call
NextMix ==
  \/ /\ ~processing
     /\ \E rnd \in Randoms : ReceiveTextInput("w1", DailyMessage(received + 1), rnd, MaxMsgs)
  \/ \E w \in workers, rnd \in Randoms : ProcessResume(w, rnd)
  \/ \E w \in workers, out \in LimiterOutcomes : GeminiSettle(w, out)
  \/ \E w \in workers, out \in LimiterOutcomes : RetrySettle(w, out)
  \/ \E d \in {1000, MinuteWindow} : TickWithin(d, MaxTicks + 1)

SpecMix == InitLimiter /\ [][NextMix]_vars

(* C37: when a request is rejected at its pre-check with isDailyLimit false *)
(* and wait time w, some credential is allowed w milliseconds later,        *)
(* whichever credentials are blocked by the short window and whichever by   *)
(* the long one.                                                            *)

C37_AllowedAfterWait ==
  [][\A j \in NewIdx :
       (PreCheckRejection(j) /\ ~log'[j].isDailyLimit) =>
         \E k \in Keys : LimiterCheck(pool'[k], now' + log'[j].waitTime).allowed]_vars

----------------------------------------------------------------------------
(* The client hook useGeminiLive                                            *)
(*                                                                          *)
(* A transcript is the number of its arrival, and a text is the sequence of *)
(* the transcripts joined with spaces. Timers are pending or not: a pending *)
(* timer fires at some later moment unless it is cleared first. Interim     *)
(* results only set interimText and are left out, with inputText and        *)
(* interimText.                                                             *)

\* socketRef.current?.readyState === WebSocket.OPEN
SocketIsOpen(H) == H.socketRef # 0 /\ H.sockets[H.socketRef].readyState = "OPEN"

\* socket.send(JSON.stringify({type, ...}))
SocketSend(H, s, type, content) ==
  [H EXCEPT !.sent = Append(@, [socket |-> s, type |-> type, content |-> content,
                                after |-> H.stoppedAt])]

\* clearDebounceTimer
ClearDebounceTimer(H) ==
  IF H.debounceTimerRef # "null" THEN [H EXCEPT !.debounceTimerRef = "null"] ELSE H

\* flushBufferedText
FlushBufferedText(H) ==
  LET text == H.bufferedTextRef
      H1 == [H EXCEPT !.bufferedTextRef = <<>>]
  IN IF text = <<>> THEN H1
     ELSE IF SocketIsOpen(H1) THEN SocketSend(H1, H1.socketRef, "text_input", text)
     ELSE H1

\* debouncedSend
DebouncedSend(H, text) ==
  LET H1 == [H EXCEPT !.bufferedTextRef = Append(@, text)]
  IN [ClearDebounceTimer(H1) EXCEPT !.debounceTimerRef = "pending"]

\* recognition.stop()
Stopped(state) == IF state \in {"starting", "running"} THEN "stopping" ELSE state

\* socket.close()
Closing(readyState) == IF readyState \in {"CONNECTING", "OPEN"} THEN "CLOSING" ELSE readyState

\* startSpeechRecognition: the old instance loses its three handlers and is
\* stopped, a new instance is created and started
StartSpeechRecognition(H) ==
  LET r == H.recognitionRef
      H1 == IF r # 0
            THEN [H EXCEPT !.recognitions[r] =
                              [onend |-> FALSE, onerror |-> FALSE, onresult |-> FALSE,
                               state |-> Stopped(@.state)],
                           !.recognitionRef = 0]
            ELSE H
  IN [H1 EXCEPT !.recognitions = Append(@, [onend |-> TRUE, onerror |-> TRUE,
                                            onresult |-> TRUE, state |-> "starting"]),
                !.recognitionRef = Len(H1.recognitions) + 1]

\* scheduleRestart; the restart timestamps only choose the delay
ScheduleRestart(H) ==
  LET H1 == [H EXCEPT !.restartTimerRef = "null"]
  IN IF ~H1.isActiveRef THEN H1
     ELSE IF ~SocketIsOpen(H1) THEN H1
     ELSE [H1 EXCEPT !.restartTimerRef = "pending"]

\* a stopEverything that leaves the buffer and its timer alone
StopEverythingKeepingBuffer(H) ==
  LET r == H.recognitionRef
      s == H.socketRef
      H1 == [H EXCEPT !.isActiveRef = FALSE, !.restartTimerRef = "null"]
      H2 == [H1 EXCEPT !.stoppedAt = H.heard]
      H3 == IF r # 0
            THEN [H2 EXCEPT !.recognitions[r] =
                               [@ EXCEPT !.onend = FALSE, !.onerror = FALSE,
                                         !.state = Stopped(@)],
                            !.recognitionRef = 0]
            ELSE H2
      H4 == IF s # 0
            THEN [H3 EXCEPT !.sockets[s].readyState = Closing(@), !.socketRef = 0]
            ELSE H3
  IN [H4 EXCEPT !.isConnected = FALSE, !.isConnecting = FALSE, !.isListening = FALSE]

\* stopEverything
StopEverything(H) ==
  LET r == H.recognitionRef
      s == H.socketRef
      H1 == [H EXCEPT !.isActiveRef = FALSE, !.restartTimerRef = "null"]
      H2 == [ClearDebounceTimer(H1) EXCEPT !.bufferedTextRef = <<>>, !.stoppedAt = H.heard]
      H3 == IF r # 0
            THEN [H2 EXCEPT !.recognitions[r] =
                               [@ EXCEPT !.onend = FALSE, !.onerror = FALSE,
                                         !.state = Stopped(@)],
                            !.recognitionRef = 0]
            ELSE H2
      H4 == IF s # 0
            THEN [H3 EXCEPT !.sockets[s].readyState = Closing(@), !.socketRef = 0]
            ELSE H3
  IN [H4 EXCEPT !.isConnected = FALSE, !.isConnecting = FALSE, !.isListening = FALSE]

\* a handler of the hook has run
HookStep(H) ==
  /\ hook' = H
  /\ UNCHANGED <<queue, processing, workers, cache, pool, wsPersona, env, now, received,
                 ticks, log>>

\* the ways a call of connect can go: the browser has no SpeechRecognition;
\* new WebSocket(wsUrl) throws (a URL that is not a ws: URL); the socket is made
ConnectOutcomes == {"unsupported", "throws", "socket"}

\* a connect that does not raise isConnecting
ConnectSilently(outcome) ==
  LET H1 == [hook EXCEPT !.error = "null", !.currentText = <<>>,
                         !.bufferedTextRef = <<>>]
      H2 == ClearDebounceTimer(H1)
  IN /\ Len(hook.sockets) < MaxConnects
     /\ CASE outcome = "unsupported" ->
               HookStep(StopEverything([hook EXCEPT !.error = "unsupported"]))
          [] outcome = "throws" ->
               HookStep(StopEverything([H2 EXCEPT !.error = "session"]))
          [] outcome = "socket" ->
               HookStep([H2 EXCEPT
                           !.sockets = Append(@, [readyState |-> "CONNECTING",
                                                  closeFired |-> FALSE]),
                           !.socketRef = Len(H2.sockets) + 1])

\* connect(...)
Connect(outcome) ==
  LET H1 == [hook EXCEPT !.isConnecting = TRUE, !.error = "null",
                         !.currentText = <<>>, !.bufferedTextRef = <<>>]
      H2 == ClearDebounceTimer(H1)
  IN /\ Len(hook.sockets) < MaxConnects
     /\ CASE outcome = "unsupported" ->
               HookStep(StopEverything([hook EXCEPT !.error = "unsupported"]))
          [] outcome = "throws" ->
               HookStep(StopEverything([H2 EXCEPT !.error = "session"]))
          [] outcome = "socket" ->
               HookStep([H2 EXCEPT
                           !.sockets = Append(@, [readyState |-> "CONNECTING",
                                                  closeFired |-> FALSE]),
                           !.socketRef = Len(H2.sockets) + 1])

Sockets == 1..Len(hook.sockets)

Recognitions == 1..Len(hook.recognitions)

\* the messages the server sends; 0 is a translated text
ServerMessages ==
  {[type |-> "connected", content |-> <<>>], [type |-> "text", content |-> <<0>>],
   [type |-> "text", content |-> <<>>], [type |-> "turn_complete", content |-> <<>>],
   [type |-> "error", content |-> <<>>]}

\* socket.onopen
SocketOpen(s) ==
  /\ s \in Sockets
  /\ hook.sockets[s].readyState = "CONNECTING"
  /\ HookStep(SocketSend([hook EXCEPT !.sockets[s].readyState = "OPEN"], s, "config", <<>>))

\* socket.onmessage
SocketMessage(s, msg) ==
  /\ s \in Sockets
  /\ hook.sockets[s].readyState = "OPEN"
  /\ CASE msg.type = "connected" ->
            /\ Len(hook.recognitions) < MaxStarts
            /\ HookStep(StartSpeechRecognition(
                 [hook EXCEPT !.isConnected = TRUE, !.isConnecting = FALSE,
                              !.isActiveRef = TRUE]))
       [] msg.type = "text" ->
            /\ msg.content # <<>> /\ ~hook.isRawModeRef
            /\ HookStep([hook EXCEPT !.currentText = msg.content])
       [] msg.type = "error" ->
            HookStep([hook EXCEPT !.error = "server"])
       [] OTHER -> FALSE

\* the connection fails: socket.onerror runs on the closed socket
SocketError(s) ==
  /\ s \in Sockets
  /\ hook.sockets[s].readyState # "CLOSED"
  /\ HookStep(StopEverything([hook EXCEPT !.sockets[s].readyState = "CLOSED",
                                          !.error = "connection"]))

\* the close event of a socket: socket.onclose
SocketClose(s) ==
  /\ s \in Sockets
  /\ ~hook.sockets[s].closeFired
  /\ HookStep(StopEverything([hook EXCEPT !.sockets[s].readyState = "CLOSED",
                                          !.sockets[s].closeFired = TRUE]))

\* disconnect()
Disconnect == HookStep([StopEverything(hook) EXCEPT !.currentText = <<>>])

\* setIsRawMode(b) and the effect that copies it into isRawModeRef
SetIsRawMode(b) ==
  /\ hook.isRawModeRef # b
  /\ HookStep([hook EXCEPT !.isRawModeRef = b])

\* recognition.onstart
RecognitionStart(r) ==
  /\ r \in Recognitions
  /\ hook.recognitions[r].state = "starting"
  /\ HookStep([hook EXCEPT !.recognitions[r].state = "running", !.isListening = TRUE])

\* recognition.onresult with a final transcript; a stopped recognition may
\* still deliver what it had captured
RecognitionResult(r) ==
  LET text == hook.heard + 1
      H == [hook EXCEPT !.heard = text]
  IN /\ r \in Recognitions
     /\ hook.recognitions[r].state \in {"running", "stopping"}
     /\ hook.recognitions[r].onresult
     /\ hook.heard < MaxTranscripts
     /\ IF H.isRawModeRef THEN HookStep([H EXCEPT !.currentText = <<text>>])
        ELSE IF SocketIsOpen(H) THEN HookStep(DebouncedSend(H, text))
        ELSE HookStep(H)

\* recognition.onend
RecognitionEnd(r) ==
  LET H == [hook EXCEPT !.recognitions[r].state = "ended"]
  IN /\ r \in Recognitions
     /\ hook.recognitions[r].state # "ended"
     /\ IF ~hook.recognitions[r].onend THEN HookStep(H)
        ELSE LET H1 == [H EXCEPT !.isListening = FALSE]
             IN HookStep(IF H1.isActiveRef THEN ScheduleRestart(H1) ELSE H1)

\* recognition.onerror with 'not-allowed', 'service-not-allowed' or
\* 'audio-capture'; the other errors only log
RecognitionError(r) ==
  /\ r \in Recognitions
  /\ hook.recognitions[r].state # "ended"
  /\ hook.recognitions[r].onerror
  /\ HookStep([hook EXCEPT !.error = "microphone", !.isActiveRef = FALSE,
                           !.isListening = FALSE])

\* the restart timer fires
RestartFire ==
  LET H == [hook EXCEPT !.restartTimerRef = "null"]
  IN /\ hook.restartTimerRef = "pending"
     /\ IF H.isActiveRef /\ SocketIsOpen(H)
        THEN /\ Len(hook.recognitions) < MaxStarts
             /\ HookStep(StartSpeechRecognition(H))
        ELSE HookStep(H)

\* the debounce timer fires: flushBufferedText runs
DebounceFire ==
  /\ hook.debounceTimerRef = "pending"
  /\ HookStep(FlushBufferedText([hook EXCEPT !.debounceTimerRef = "fired"]))

\* simulateVoiceInput(text, ...)
SimulateVoiceInput ==
  LET text == hook.heard + 1
      H == [hook EXCEPT !.heard = text]
  IN /\ hook.heard < MaxTranscripts
     /\ IF H.isRawModeRef THEN HookStep([H EXCEPT !.currentText = <<text>>])
        ELSE IF SocketIsOpen(H)
        THEN HookStep(SocketSend([ClearDebounceTimer(H) EXCEPT !.bufferedTextRef = <<>>],
                                 H.socketRef, "text_input", <<text>>))
        ELSE HookStep(H)

InitHook == Init /\ pool = NewPool /\ env = [mock |-> FALSE, deepl |-> TRUE]

NextHook ==
  \/ \E outcome \in ConnectOutcomes : Connect(outcome)
  \/ \E s \in Sockets : SocketOpen(s)
  \/ \E s \in Sockets, msg \in ServerMessages : SocketMessage(s, msg)
  \/ \E s \in Sockets : SocketError(s)
  \/ \E s \in Sockets : SocketClose(s)
  \/ Disconnect
  \/ \E b \in BOOLEAN : SetIsRawMode(b)
  \/ \E r \in Recognitions : RecognitionStart(r)
  \/ \E r \in Recognitions : RecognitionResult(r)
  \/ \E r \in Recognitions : RecognitionEnd(r)
  \/ \E r \in Recognitions : RecognitionError(r)
  \/ RestartFire
  \/ DebounceFire
  \/ SimulateVoiceInput

SpecHook == InitHook /\ [][NextHook]_vars

----------------------------------------------------------------------------
(* The session of the hook: connecting, connected, stopped *)

NextSession ==
  \/ \E outcome \in ConnectOutcomes : Connect(outcome)
  \/ \E s \in Sockets : SocketOpen(s)
  \/ \E s \in Sockets, msg \in ServerMessages : SocketMessage(s, msg)
  \/ \E s \in Sockets : SocketError(s)
  \/ \E s \in Sockets : SocketClose(s)
  \/ Disconnect

SpecSession == InitHook /\ [][NextSession]_vars

ConnectedMessage == [type |-> "connected", content |-> <<>>]

\* the step is the handler of a 'connected' message
ConnectedReceived == \E s \in Sockets : SocketMessage(s, ConnectedMessage)

\* the step runs stopEverything
Stops ==
  \/ Disconnect
  \/ Connect("unsupported") \/ Connect("throws")
  \/ \E s \in Sockets : SocketError(s) \/ SocketClose(s)

(* C31 as stated: connect() raises isConnecting, and isConnecting falls     *)
(* only when the 'connected' message is received, which raises isConnected. *)

----------------------------------------------------------------------------
(* C38: the events of an earlier socket leave a later session alone: when   *)
(* the error or close event of a socket that the hook has closed arrives    *)
(* after a new connect(), the current socket stays current and in its       *)
(* state, and isConnected, isConnecting and the recognition of the session  *)
(* are unchanged.                                                           *)

C38_EarlierSocketHarmless ==
  [][\A s \in Sockets :
       (/\ SocketClose(s) \/ SocketError(s)
        /\ hook.sockets[s].readyState = "CLOSING"
        /\ hook.socketRef # 0 /\ s # hook.socketRef) =>
         /\ hook'.socketRef = hook.socketRef
         /\ hook'.sockets[hook.socketRef].readyState = hook.sockets[hook.socketRef].readyState
         /\ hook'.isConnected = hook.isConnected
         /\ hook'.isConnecting = hook.isConnecting
         /\ hook'.recognitionRef = hook.recognitionRef
         /\ hook'.isActiveRef = hook.isActiveRef]_vars

----------------------------------------------------------------------------
(* What a stopped session leaves behind *)

\* sessions that are connected, hear final transcripts, lose their
\* recognition and restart it, and are stopped and started again
NextStop ==
  \/ Connect("socket")
  \/ \E s \in Sockets : SocketOpen(s)
  \/ \E s \in Sockets : SocketMessage(s, ConnectedMessage)
  \/ \E s \in Sockets : SocketClose(s)
  \/ Disconnect
  \/ \E r \in Recognitions : RecognitionResult(r)
  \/ \E r \in Recognitions : RecognitionEnd(r)
  \/ RestartFire
  \/ DebounceFire

SpecStop == InitHook /\ [][NextStop]_vars

\* the messages the step hands to socket.send
SentNow == (Len(hook.sent) + 1)..Len(hook'.sent)

(* C39: stopEverything leaves nothing to be sent or restarted: it cancels   *)
(* the debounce timer and the restart timer, empties the buffer and marks   *)
(* the session inactive; a recognition is started only by a 'connected'     *)
(* message or by the restart timer of an active session; a connect starts   *)
(* with an empty buffer and no debounce timer; and every text_input that is *)
(* sent holds only transcripts that arrived after stopEverything last ran.  *)

----------------------------------------------------------------------------
(* The debounce of final transcripts *)

\* the transcripts of a text
TranscriptsOf(text) == {text[j] : j \in 1..Len(text)}

\* C40: while the socket stays open and raw mode is off, no operation of
\* the hook loses a buffered transcript: a transcript that leaves
\* bufferedTextRef in a step is in a text_input the step sends
C40_BufferedNeverLost ==
  [][(/\ SocketIsOpen(hook) /\ SocketIsOpen(hook')
      /\ hook'.socketRef = hook.socketRef
      /\ ~hook.isRawModeRef /\ ~hook'.isRawModeRef)
     => \A t \in TranscriptsOf(hook.bufferedTextRef) :
          \/ t \in TranscriptsOf(hook'.bufferedTextRef)
          \/ \E i \in SentNow :
               /\ hook'.sent[i].type = "text_input"
               /\ t \in TranscriptsOf(hook'.sent[i].content)]_vars

====
